---------------------------- MODULE Spec2Model ----------------------------
(***************************************************************************)
(* Basket resolution (example/shop/models/basket.py), item creation        *)
(* (salesman/basket/serializers.py) and the order status table             *)
(* (example/shop/status.py) of django-point-of-salesman.                   *)
(*                                                                         *)
(* The basket table is a function from primary keys to rows; the session   *)
(* is the dict request.session, a function from the session keys to a      *)
(* basket id, with NoBasket standing for "key not in the dict".            *)
(***************************************************************************)
EXTENDS Integers, Sequences, FiniteSets, TLC

VARIABLES
    store,        \* the basket table: primary key -> row
    session,      \* the browser's session dict: session key -> basket id
    nextId,       \* the next primary key of the basket table
    orders,       \* the statuses of the orders
    last,         \* the last call: what it was given, what it returned
    has_session,  \* whether requests carry a session (session middleware)
    race          \* two calls in progress: each one's position and locals

vars == <<store, session, nextId, orders, last, has_session, race>>

----------------------------------------------------------------------------
(* Bounds of the model *)

\* primary keys handed out by the basket table (ids are never reused)
MaxId == 2
\* largest total quantity of the items of the whole table
MaxQty == 2
\* number of orders followed through the status table
MaxOrders == 2
\* number of rows of a table that is not built by the operations below
MaxRows == 2

----------------------------------------------------------------------------
(* Values *)

NoBasket == 0
NoUser == "nobody"
NoHook == "nohook"

\* request.user: anonymous, an ordinary user, a staff user
Anonymous == "anonymous"
Users == {Anonymous, "customer", "staff"}
UserIds == Users \ {Anonymous}
Hooks == {"h1"}
HookArgs == Hooks \cup {NoHook}
Refs == {"a", "b"}

is_authenticated(user) == user # Anonymous
is_staff(user) == user = "staff"

BASKET_ID_SESSION_KEY == "BASKET_ID"

\* basket.py 30-33 / 75-78
SessionKey_Shared(hook_id) == BASKET_ID_SESSION_KEY

\* basket.py 30-33 / 75-78: the session key of a call
SessionKey(hook_id) ==
    IF hook_id # NoHook
    THEN BASKET_ID_SESSION_KEY \o "_" \o hook_id
    ELSE BASKET_ID_SESSION_KEY

SessionKeys == {SessionKey(h) : h \in HookArgs}

\* request.session = {} (basket.py 27-28 / 72-73)
EmptySession == [k \in SessionKeys |-> NoBasket]

NoItems == [r \in Refs |-> 0]

\* a row of the basket table
Basket(user, hook_id, items) == [user |-> user, hook_id |-> hook_id, items |-> items]

----------------------------------------------------------------------------
(* The persistence collaborator: queries over the basket table *)

\* objects.filter(hook_id=h)
ByHook(st, hook_id) == {b \in DOMAIN st : st[b].hook_id = hook_id}

\* objects.filter(user_id=u)
ByUser(st, user) == {b \in DOMAIN st : st[b].user = user}

\* objects.create(**fields): a new row under the next primary key
Insert(st, id, row) == [b \in DOMAIN st \cup {id} |-> IF b = id THEN row ELSE st[b]]

\* total quantity of all the items of the table
TotalQty(st) ==
    LET RECURSIVE Sum(_)
        Sum(S) == IF S = {} THEN 0
                  ELSE LET p == CHOOSE x \in S : TRUE
                       IN st[p[1]].items[p[2]] + Sum(S \ {p})
    IN Sum((DOMAIN st) \X Refs)

\* basket.merge(other): fold other's items into self, summing the quantities of
\* items with the same ref, then delete other.  A row that is gone has no items
\* and deleting it again deletes nothing.
merge(st, self, other) ==
    IF other \notin DOMAIN st THEN st
    ELSE LET folded == [st EXCEPT ![self].items =
                            [r \in Refs |-> st[self].items[r] + st[other].items[r]]]
         IN [b \in DOMAIN st \ {other} |-> folded[b]]

\* for other in baskets[1:]: basket.merge(other)   (basket.py 48-49)
RECURSIVE MergeAll(_, _, _)
MergeAll(st, self, others) ==
    IF others = {} THEN st
    ELSE LET o == CHOOSE x \in others : TRUE
         IN MergeAll(merge(st, self, o), self, others \ {o})

----------------------------------------------------------------------------
(* get_or_create_from_request, basket.py 16-69 *)

\* basket.py 35-39 / 80-84
SessionBasket_AnyOwner(st, ses, key) ==
    IF ses[key] # NoBasket /\ ses[key] \in DOMAIN st
    THEN ses[key]
    ELSE NoBasket

\* basket.py 35-39 / 80-84: the ownerless basket the session key names, if any
SessionBasket(st, ses, key) ==
    IF ses[key] # NoBasket /\ ses[key] \in DOMAIN st /\ st[ses[key]].user = NoUser
    THEN ses[key]
    ELSE NoBasket

\* basket.py 41 / 86: the staff-with-hook_id branch
StaffWithHook(user, hook_id) ==
    is_authenticated(user) /\ is_staff(user) /\ hook_id # NoHook

Result(st, ses, nid, basket, created, raised) ==
    [store |-> st, session |-> ses, nextId |-> nid,
     basket |-> basket, created |-> created, raised |-> raised]

\* basket.py 42-49
HookGetOrCreate_AlwaysCreate(st, ses, nid, hook_id, first) ==
    Result(Insert(st, nid, Basket(NoUser, hook_id, NoItems)), ses, nid + 1,
           nid, TRUE, "none")

\* basket.py 42-49: get_or_create(hook_id=hook_id); on MultipleObjectsReturned
\* the first of filter(hook_id=hook_id) is kept and the others merged into it.
\* `first` is that first row: the queryset's order is not fixed by this code.
HookGetOrCreate(st, ses, nid, hook_id, first) ==
    LET found == ByHook(st, hook_id) IN
    IF found = {}
    THEN Result(Insert(st, nid, Basket(NoUser, hook_id, NoItems)), ses, nid + 1,
                nid, TRUE, "none")
    ELSE IF Cardinality(found) = 1
    THEN Result(st, ses, nid, CHOOSE b \in found : TRUE, FALSE, "none")
    ELSE Result(MergeAll(st, first, found \ {first}), ses, nid, first, FALSE, "none")

\* basket.py 51-53: merge the session basket into the hook basket
MergeSession(r, session_basket) ==
    IF session_basket # NoBasket
    THEN [r EXCEPT !.store = merge(r.store, r.basket, session_basket)]
    ELSE r

\* basket.py 55-58: delete the session key
DropSessionKey_Keep(r, key) == r

DropSessionKey(r, key) ==
    IF r.session[key] # NoBasket
    THEN [r EXCEPT !.session = [r.session EXCEPT ![key] = NoBasket]]
    ELSE r

\* basket.py 62: get_or_create(user_id=request.user.id)
UserGetOrCreate_AlwaysCreate(st, ses, nid, user) ==
    Result(Insert(st, nid, Basket(user, NoHook, NoItems)), ses, nid + 1,
           nid, TRUE, "none")

UserGetOrCreate(st, ses, nid, user) ==
    LET found == ByUser(st, user) IN
    IF found = {}
    THEN Result(Insert(st, nid, Basket(user, NoHook, NoItems)), ses, nid + 1,
                nid, TRUE, "none")
    ELSE IF Cardinality(found) = 1
    THEN Result(st, ses, nid, CHOOSE b \in found : TRUE, FALSE, "none")
    ELSE Result(st, ses, nid, NoBasket, FALSE, "MultipleObjectsReturned")

\* basket.py 64-65: session_basket or self.create(), and the session write
AnonymousResolve_NoWrite(st, ses, nid, key, session_basket) ==
    IF session_basket # NoBasket
    THEN Result(st, ses, nid, session_basket, FALSE, "none")
    ELSE Result(Insert(st, nid, Basket(NoUser, NoHook, NoItems)), ses, nid + 1,
                nid, TRUE, "none")

AnonymousResolve_AlwaysCreate(st, ses, nid, key, session_basket) ==
    Result(Insert(st, nid, Basket(NoUser, NoHook, NoItems)),
           [ses EXCEPT ![key] = nid], nid + 1, nid, TRUE, "none")

AnonymousResolve(st, ses, nid, key, session_basket) ==
    IF session_basket # NoBasket
    THEN Result(st, [ses EXCEPT ![key] = session_basket], nid,
                session_basket, FALSE, "none")
    ELSE Result(Insert(st, nid, Basket(NoUser, NoHook, NoItems)),
                [ses EXCEPT ![key] = nid], nid + 1, nid, TRUE, "none")

\* basket.py 16-69
get_or_create_from_request_MergeOnLogin(st, ses, nid, user, hook_id, first) ==
    LET session_key == SessionKey(hook_id)
        session_basket == SessionBasket(st, ses, session_key)
    IN IF StaffWithHook(user, hook_id)
       THEN DropSessionKey(
                MergeSession(HookGetOrCreate(st, ses, nid, hook_id, first),
                             session_basket),
                session_key)
       ELSE IF is_authenticated(user)
       THEN DropSessionKey(
                MergeSession(UserGetOrCreate(st, ses, nid, user), session_basket),
                session_key)
       ELSE AnonymousResolve(st, ses, nid, session_key, session_basket)

\* basket.py 16-69
get_or_create_from_request(st, ses, nid, user, hook_id, first) ==
    LET session_key == SessionKey(hook_id)
        session_basket == SessionBasket(st, ses, session_key)
    IN IF StaffWithHook(user, hook_id)
       THEN DropSessionKey(
                MergeSession(HookGetOrCreate(st, ses, nid, hook_id, first),
                             session_basket),
                session_key)
       ELSE IF is_authenticated(user)
       THEN UserGetOrCreate(st, ses, nid, user)
       ELSE AnonymousResolve(st, ses, nid, session_key, session_basket)

----------------------------------------------------------------------------
(* get_from_request_or_none, basket.py 71-101 *)

\* basket.py 87-90: self.get(hook_id=hook_id), DoesNotExist caught
HookGet_OrCreate(st, ses, nid, hook_id) ==
    LET found == ByHook(st, hook_id) IN
    IF found = {}
    THEN Result(Insert(st, nid, Basket(NoUser, hook_id, NoItems)), ses, nid + 1,
                nid, FALSE, "none")
    ELSE IF Cardinality(found) = 1
    THEN Result(st, ses, nid, CHOOSE b \in found : TRUE, FALSE, "none")
    ELSE Result(st, ses, nid, NoBasket, FALSE, "MultipleObjectsReturned")

HookGet(st, ses, nid, hook_id) ==
    LET found == ByHook(st, hook_id) IN
    IF found = {}
    THEN Result(st, ses, nid, NoBasket, FALSE, "none")
    ELSE IF Cardinality(found) = 1
    THEN Result(st, ses, nid, CHOOSE b \in found : TRUE, FALSE, "none")
    ELSE Result(st, ses, nid, NoBasket, FALSE, "MultipleObjectsReturned")

\* basket.py 92-97: merge the session basket if both exist; with no session
\* basket the result is None
MergeSessionOrNone(r, session_basket) ==
    IF r.raised # "none" THEN r
    ELSE IF session_basket # NoBasket
    THEN IF r.basket # NoBasket
         THEN [r EXCEPT !.store = merge(r.store, r.basket, session_basket)]
         ELSE r
    ELSE [r EXCEPT !.basket = NoBasket]

\* basket.py 71-101
get_from_request_or_none_UserBasket(st, ses, nid, user, hook_id) ==
    LET session_key == SessionKey(hook_id)
        session_basket == SessionBasket(st, ses, session_key)
    IN IF StaffWithHook(user, hook_id)
       THEN MergeSessionOrNone(HookGet(st, ses, nid, hook_id), session_basket)
       ELSE IF is_authenticated(user) /\ Cardinality(ByUser(st, user)) = 1
       THEN Result(st, ses, nid, CHOOSE b \in ByUser(st, user) : TRUE, FALSE,
                   "none")
       ELSE Result(st, ses, nid, session_basket, FALSE, "none")

\* basket.py 71-101
get_from_request_or_none(st, ses, nid, user, hook_id) ==
    LET session_key == SessionKey(hook_id)
        session_basket == SessionBasket(st, ses, session_key)
    IN IF StaffWithHook(user, hook_id)
       THEN MergeSessionOrNone(HookGet(st, ses, nid, hook_id), session_basket)
       ELSE Result(st, ses, nid, session_basket, FALSE, "none")

----------------------------------------------------------------------------
(* BasketItemCreateSerializer.create, serializers.py 183-196 *)

\* basket.py 105-111: hook_id is unique; save() of a row whose hook_id another
\* row holds raises IntegrityError
UniqueHook_Unchecked(st, basket, hook_id) == TRUE

UniqueHook(st, basket, hook_id) == ByHook(st, hook_id) \subseteq {basket}

\* basket.add(product, quantity, ref, extra): the item with this ref gets the
\* quantity added, or is created with it
add(st, basket, ref, quantity) ==
    [st EXCEPT ![basket].items[ref] = @ + quantity]

\* serializers.py 183-196
create(st, ses, nid, basket, hook_id, ref, quantity) ==
    IF hook_id # NoHook /\ ~UniqueHook(st, basket, hook_id)
    THEN Result(st, ses, nid, basket, FALSE, "IntegrityError")
    ELSE LET saved == IF hook_id # NoHook
                      THEN [st EXCEPT ![basket].hook_id = hook_id]
                      ELSE st
         IN Result(add(saved, basket, ref, quantity), ses, nid, basket, FALSE, "none")

----------------------------------------------------------------------------
(* The state machine *)

\* the names of the two resolver calls
Goc == "get_or_create_from_request"
OrNone == "get_from_request_or_none"

\* what the last completed call was given and what it returned; `session` is
\* request.session as the call left it
Call(op, user, hook_id, r) ==
    [op |-> op, user |-> user, hook_id |-> hook_id,
     basket |-> r.basket, created |-> r.created, raised |-> r.raised,
     session |-> r.session]

NoCall ==
    [op |-> "none", user |-> Anonymous, hook_id |-> NoHook,
     basket |-> NoBasket, created |-> FALSE, raised |-> "none",
     session |-> EmptySession]

\* the calls that run step by step (basket.py 16-23: any two requests)
Procs == {"p1", "p2"}

\* a call that has not started: its position is the first read, l.35-39
NotStarted ==
    [pc |-> "session_basket", session_basket |-> NoBasket, basket |-> NoBasket,
     created |-> FALSE, lost |-> FALSE]

NoRace == [p \in Procs |-> NotStarted]

Init ==
    /\ store = << >>
    /\ session = EmptySession
    /\ nextId = 1
    /\ orders = << >>
    /\ last = NoCall
    /\ has_session \in BOOLEAN
    /\ race = NoRace

\* request.session: the browser's session, or, where requests carry none
\* (hasattr(request, "session") is false), a dict made for the call
RequestSession == IF has_session THEN session ELSE EmptySession

\* the table hands out primary keys up to MaxId
Fits(r) == r.nextId <= MaxId + 1

Commit(op, user, hook_id, r) ==
    /\ store' = r.store
    /\ session' = IF has_session THEN r.session ELSE session
    /\ nextId' = r.nextId
    /\ last' = Call(op, user, hook_id, r)
    /\ UNCHANGED <<orders, has_session, race>>

\* the rows filter(hook_id=hook_id) may return first
Firsts(hook_id) ==
    IF ByHook(store, hook_id) = {} THEN {NoBasket} ELSE ByHook(store, hook_id)

GetOrCreateFromRequest ==
    \E user \in Users, hook_id \in HookArgs :
      \E first \in Firsts(hook_id) :
        LET r == get_or_create_from_request(store, RequestSession, nextId,
                                            user, hook_id, first)
        IN /\ Fits(r)
           /\ Commit(Goc, user, hook_id, r)

GetFromRequestOrNone ==
    \E user \in Users, hook_id \in HookArgs :
        LET r == get_from_request_or_none(store, RequestSession, nextId,
                                          user, hook_id)
        IN /\ Fits(r)
           /\ Commit(OrNone, user, hook_id, r)

\* the context basket is any basket of the table; an empty hook_id is no hook_id
CreateItem ==
    \E basket \in DOMAIN store, hook_id \in HookArgs, ref \in Refs,
       quantity \in 1..MaxQty :
        LET r == create(store, RequestSession, nextId, basket, hook_id, ref,
                        quantity)
        IN /\ TotalQty(store) + quantity <= MaxQty
           /\ Commit("create", Anonymous, hook_id, r)

Next ==
    \/ GetOrCreateFromRequest
    \/ GetFromRequestOrNone
    \/ CreateItem

Spec == Init /\ [][Next]_vars

----------------------------------------------------------------------------
(* A basket table that the operations above did not build *)

\* the rows of such a table all have the same owner and hook_id, and each
\* has no item or one
AnomalyItems == {NoItems} \cup {[NoItems EXCEPT ![r] = 1] : r \in Refs}

AnomalyRows(user, hook_id) == {Basket(user, hook_id, i) : i \in AnomalyItems}

\* a table of up to MaxRows rows that share a hook_id or a user (the condition
\* basket.py 44-49 is written for), and any session over it
InitAnomaly ==
    /\ \E n \in 0..MaxRows, user \in {NoUser, "customer"}, hook_id \in HookArgs :
         /\ store \in [1..n -> AnomalyRows(user, hook_id)]
         /\ session \in [SessionKeys -> 0..n]
         /\ nextId = n + 1
    /\ orders = << >>
    /\ last = NoCall
    /\ has_session = TRUE
    /\ race = NoRace

SpecAnomaly == InitAnomaly /\ [][Next]_vars

\* the two resolvers alone over such a table
NextResolve ==
    \/ GetOrCreateFromRequest
    \/ GetFromRequestOrNone

SpecResolve == InitAnomaly /\ [][NextResolve]_vars

----------------------------------------------------------------------------
(* Two get_or_create_from_request calls of staff users for one hook_id that  *)
(* no basket has yet, interleaved read by read and write by write            *)
(* (basket.py 35-58), and the calls made once both have returned.            *)

\* the hook_id the two calls are made for
RaceHook == CHOOSE h \in Hooks : TRUE

\* no basket has the hook_id; the session may name an ownerless basket
InitRace ==
    /\ \E n \in 0..1, i \in AnomalyItems, named \in 0..1 :
         /\ named <= n
         /\ store = [b \in 1..n |-> Basket(NoUser, NoHook, i)]
         /\ session = [EmptySession EXCEPT ![SessionKey(RaceHook)] = named]
         /\ nextId = n + 1
    /\ orders = << >>
    /\ last = NoCall
    /\ has_session \in BOOLEAN
    /\ race = NoRace

\* basket.py 35-39: the read of the session basket
RaceSessionBasket(p) ==
    /\ race[p].pc = "session_basket"
    /\ race' = [race EXCEPT
                  ![p].session_basket =
                      SessionBasket(store, RequestSession, SessionKey(RaceHook)),
                  ![p].pc = "get"]
    /\ UNCHANGED <<store, session, nextId, orders, last, has_session>>

\* basket.py 43-49: the SELECT of get_or_create(hook_id=hook_id), made again
\* after a lost INSERT; with several rows the first of filter() is kept and
\* the others are merged into it
RaceGet(p) ==
    /\ race[p].pc = "get"
    /\ LET found == ByHook(store, RaceHook) IN
       IF found = {}
       THEN /\ race' = [race EXCEPT
                          ![p].pc = IF race[p].lost THEN "raised" ELSE "create"]
            /\ store' = store
       ELSE \E first \in found :
              /\ store' = MergeAll(store, first, found \ {first})
              /\ race' = [race EXCEPT ![p].basket = first, ![p].pc = "merge"]
    /\ UNCHANGED <<session, nextId, orders, last, has_session>>

\* basket.py 43, 105-111: the INSERT of get_or_create(hook_id=hook_id); the
\* unique hook_id makes it fail when a row with the hook_id is there by now,
\* and get_or_create then reads again
RaceCreate(p) ==
    /\ race[p].pc = "create"
    /\ IF UniqueHook(store, nextId, RaceHook)
       THEN /\ nextId <= MaxId
            /\ store' = Insert(store, nextId, Basket(NoUser, RaceHook, NoItems))
            /\ nextId' = nextId + 1
            /\ race' = [race EXCEPT ![p].basket = nextId, ![p].created = TRUE,
                                    ![p].pc = "merge"]
       ELSE /\ race' = [race EXCEPT ![p].lost = TRUE, ![p].pc = "get"]
            /\ UNCHANGED <<store, nextId>>
    /\ UNCHANGED <<session, orders, last, has_session>>

\* basket.py 51-53: if session_basket: basket.merge(session_basket)
RaceMerge(p) ==
    /\ race[p].pc = "merge"
    /\ store' = IF race[p].session_basket # NoBasket
                THEN merge(store, race[p].basket, race[p].session_basket)
                ELSE store
    /\ race' = [race EXCEPT ![p].pc = "drop"]
    /\ UNCHANGED <<session, nextId, orders, last, has_session>>

\* basket.py 55-58: the session key is deleted, and the call returns
RaceDrop(p) ==
    /\ race[p].pc = "drop"
    /\ session' = IF has_session
                  THEN [session EXCEPT ![SessionKey(RaceHook)] = NoBasket]
                  ELSE session
    /\ race' = [race EXCEPT ![p].pc = "done"]
    /\ UNCHANGED <<store, nextId, orders, last, has_session>>

\* both calls have returned
RaceOver == \A p \in Procs : race[p].pc \in {"done", "raised"}

\* basket.py 16-69: a further call of a staff user for the hook_id
FurtherCall ==
    /\ RaceOver
    /\ \E first \in Firsts(RaceHook) :
         LET r == get_or_create_from_request(store, RequestSession, nextId,
                                             "staff", RaceHook, first)
         IN /\ Fits(r)
            /\ Commit(Goc, "staff", RaceHook, r)

NextRace ==
    \/ \E p \in Procs : RaceSessionBasket(p)
    \/ \E p \in Procs : RaceGet(p)
    \/ \E p \in Procs : RaceCreate(p)
    \/ \E p \in Procs : RaceMerge(p)
    \/ \E p \in Procs : RaceDrop(p)
    \/ FurtherCall

SpecRace == InitRace /\ [][NextRace]_vars

----------------------------------------------------------------------------
(* One session used under several hook ids, basket.py 30-39 and 63-65 *)

KeyHooks == {"h1", "h2"}
KeyHookArgs == KeyHooks \cup {NoHook}

\* an empty table and a session with none of the keys
InitKeys ==
    /\ store = << >>
    /\ session = [k \in {SessionKey(h) : h \in KeyHookArgs} |-> NoBasket]
    /\ nextId = 1
    /\ orders = << >>
    /\ last = NoCall
    /\ has_session = TRUE
    /\ race = NoRace

\* get_or_create_from_request(request, hook_id) with any of the hook ids
ResolveUnderKey ==
    \E user \in Users, hook_id \in KeyHookArgs :
      \E first \in Firsts(hook_id) :
        LET r == get_or_create_from_request(store, RequestSession, nextId,
                                            user, hook_id, first)
        IN /\ Fits(r)
           /\ Commit(Goc, user, hook_id, r)

SpecKeys == InitKeys /\ [][ResolveUnderKey]_vars

----------------------------------------------------------------------------
(* Checkout: CheckoutViewSet (salesman/checkout/views.py) paying with        *)
(* PayAfterService (example/shop/payment/after_service.py)                   *)

\* after_service.py 25-34: create_from_basket(basket, request,
\* status="CREATED"), then basket.delete()
basket_payment_KeepBasket(st, ords, basket) ==
    [store |-> st, orders |-> Append(ords, "CREATED")]

basket_payment(st, ords, basket) ==
    [store |-> [b \in DOMAIN st \ {basket} |-> st[b]],
     orders |-> Append(ords, "CREATED")]

\* views.py 60-74: the basket put in the serializer context (NoBasket: the
\* context has no "basket"); hook_id is request.data.get("hook_id")
get_serializer_context_FallBack(st, ses, nid, user, hook_id) ==
    IF hook_id # NoHook /\ ByHook(st, hook_id) # {}
    THEN HookGet(st, ses, nid, hook_id)
    ELSE get_or_create_from_request(st, ses, nid, user, NoHook, NoBasket)

get_serializer_context(st, ses, nid, user, hook_id) ==
    IF hook_id # NoHook
    THEN HookGet(st, ses, nid, hook_id)
    ELSE get_or_create_from_request(st, ses, nid, user, NoHook, NoBasket)

\* CheckoutSerializer: a context without a basket is a validation error (the
\* check views.py 68 leaves to the serializer); otherwise the basket is paid
CheckoutSerializer(context, ords) ==
    IF context.raised # "none"
    THEN [result |-> context, orders |-> ords]
    ELSE IF context.basket = NoBasket
    THEN [result |-> [context EXCEPT !.raised = "ValidationError"],
          orders |-> ords]
    ELSE LET paid == basket_payment(context.store, ords, context.basket)
         IN [result |-> [context EXCEPT !.store = paid.store],
             orders |-> paid.orders]

\* views.py 105-114: the status of the response to what the checkout raised
Response(raised) ==
    CASE raised = "none" -> "HTTP_201_CREATED"
      [] raised = "PaymentError" -> "HTTP_402_PAYMENT_REQUIRED"
      [] raised = "ValidationError" -> "HTTP_400_BAD_REQUEST"
      [] OTHER -> "HTTP_500_INTERNAL_SERVER_ERROR"

\* views.py 105-114: CheckoutViewSet.create
checkout(st, ses, nid, ords, user, hook_id) ==
    CheckoutSerializer(get_serializer_context(st, ses, nid, user, hook_id), ords)

CheckoutOp == "checkout"

Checkout ==
    \E user \in Users, hook_id \in HookArgs :
        LET c == checkout(store, RequestSession, nextId, orders, user, hook_id)
        IN /\ Fits(c.result)
           /\ Len(c.orders) <= MaxOrders
           /\ store' = c.result.store
           /\ session' = IF has_session THEN c.result.session ELSE session
           /\ nextId' = c.result.nextId
           /\ orders' = c.orders
           /\ last' = Call(CheckoutOp, user, hook_id, c.result)
           /\ UNCHANGED <<has_session, race>>

NextCheckout ==
    \/ GetOrCreateFromRequest
    \/ CreateItem
    \/ Checkout

SpecCheckout == Init /\ [][NextCheckout]_vars

----------------------------------------------------------------------------
(* The order status table, status.py *)

\* status.py 13-30
OrderStatus ==
    {"NEW", "CREATED", "HOLD", "FAILED", "CANCELLED", "PROCESSING", "SHIPPED",
     "POS_PREPARING", "POS_READY", "POS_REMAKE", "POS_SERVED", "POS_PAID",
     "COMPLETED", "REFUNDED"}

\* status.py 32-37
get_payable == <<"CREATED", "HOLD", "FAILED">>

\* status.py 39-55
get_transitions_CancelledReopens ==
    [NEW |-> <<"CREATED">>,
     CREATED |-> <<"HOLD", "FAILED", "CANCELLED", "PROCESSING",
                   "POS_PREPARING", "POS_READY", "POS_REMAKE">>,
     HOLD |-> <<"FAILED", "CANCELLED", "PROCESSING">>,
     FAILED |-> <<"CANCELLED", "PROCESSING">>,
     CANCELLED |-> <<"CREATED">>,
     PROCESSING |-> <<"SHIPPED", "COMPLETED", "REFUNDED">>,
     SHIPPED |-> <<"COMPLETED", "REFUNDED">>,
     COMPLETED |-> <<"REFUNDED">>,
     REFUNDED |-> << >>]

\* status.py 39-55
get_transitions_PosWired ==
    [NEW |-> <<"CREATED">>,
     CREATED |-> <<"HOLD", "FAILED", "CANCELLED", "PROCESSING",
                   "POS_PREPARING", "POS_READY", "POS_REMAKE">>,
     HOLD |-> <<"FAILED", "CANCELLED", "PROCESSING">>,
     FAILED |-> <<"CANCELLED", "PROCESSING">>,
     CANCELLED |-> << >>,
     PROCESSING |-> <<"SHIPPED", "COMPLETED", "REFUNDED">>,
     SHIPPED |-> <<"COMPLETED", "REFUNDED">>,
     POS_PREPARING |-> <<"POS_READY", "POS_REMAKE">>,
     POS_READY |-> <<"POS_SERVED", "POS_REMAKE">>,
     POS_REMAKE |-> <<"POS_READY">>,
     POS_SERVED |-> <<"POS_PAID">>,
     POS_PAID |-> <<"COMPLETED">>,
     COMPLETED |-> <<"REFUNDED">>,
     REFUNDED |-> << >>]

get_transitions_FailedToHold ==
    [NEW |-> <<"CREATED">>,
     CREATED |-> <<"HOLD", "FAILED", "CANCELLED", "PROCESSING",
                   "POS_PREPARING", "POS_READY", "POS_REMAKE">>,
     HOLD |-> <<"FAILED", "CANCELLED", "PROCESSING">>,
     FAILED |-> <<"HOLD", "CANCELLED", "PROCESSING">>,
     CANCELLED |-> << >>,
     PROCESSING |-> <<"SHIPPED", "COMPLETED", "REFUNDED">>,
     SHIPPED |-> <<"COMPLETED", "REFUNDED">>,
     COMPLETED |-> <<"REFUNDED">>,
     REFUNDED |-> << >>]

get_transitions_ProcessingFails ==
    [NEW |-> <<"CREATED">>,
     CREATED |-> <<"HOLD", "FAILED", "CANCELLED", "PROCESSING",
                   "POS_PREPARING", "POS_READY", "POS_REMAKE">>,
     HOLD |-> <<"FAILED", "CANCELLED", "PROCESSING">>,
     FAILED |-> <<"CANCELLED", "PROCESSING">>,
     CANCELLED |-> << >>,
     PROCESSING |-> <<"FAILED", "SHIPPED", "COMPLETED", "REFUNDED">>,
     SHIPPED |-> <<"COMPLETED", "REFUNDED">>,
     COMPLETED |-> <<"REFUNDED">>,
     REFUNDED |-> << >>]

get_transitions ==
    [NEW |-> <<"CREATED">>,
     CREATED |-> <<"HOLD", "FAILED", "CANCELLED", "PROCESSING",
                   "POS_PREPARING", "POS_READY", "POS_REMAKE">>,
     HOLD |-> <<"FAILED", "CANCELLED", "PROCESSING">>,
     FAILED |-> <<"CANCELLED", "PROCESSING">>,
     CANCELLED |-> << >>,
     PROCESSING |-> <<"SHIPPED", "COMPLETED", "REFUNDED">>,
     SHIPPED |-> <<"COMPLETED", "REFUNDED">>,
     COMPLETED |-> <<"REFUNDED">>,
     REFUNDED |-> << >>]

\* the members of a list
Members(list) == {list[i] : i \in DOMAIN list}

\* current -> next is legal iff next is in get_transitions()[current]; a status
\* that is no key of the table has no entry to look into
Legal(current, next) ==
    /\ current \in DOMAIN get_transitions
    /\ next \in Members(get_transitions[current])

\* an order is created with status NEW
NewOrder ==
    /\ Len(orders) < MaxOrders
    /\ orders' = Append(orders, "NEW")
    /\ UNCHANGED <<store, session, nextId, last, has_session, race>>

\* a legal status change of an order
ChangeStatus ==
    \E o \in DOMAIN orders, next \in OrderStatus :
        /\ Legal(orders[o], next)
        /\ orders' = [orders EXCEPT ![o] = next]
        /\ UNCHANGED <<store, session, nextId, last, has_session, race>>

NextStatus ==
    \/ NewOrder
    \/ ChangeStatus

SpecStatus == Init /\ [][NextStatus]_vars

----------------------------------------------------------------------------
(* Properties.  A step's call is described by last' (what it was given and   *)
(* what it returned); the unprimed variables are the state it started from. *)

\* the session key and the session basket of the call a step makes
CallKey == SessionKey(last'.hook_id)
CallSessionBasket ==
    SessionBasket(store, RequestSession, CallKey)

\* the summed quantity of a product reference over a set of baskets
RECURSIVE QtyOver(_, _, _)
QtyOver(st, baskets, ref) ==
    IF baskets = {} THEN 0
    ELSE LET b == CHOOSE x \in baskets : TRUE
         IN st[b].items[ref] + QtyOver(st, baskets \ {b}, ref)

\* C1: an anonymous get_or_create_from_request without hook_id whose session
\* holds no basket id adds exactly one basket, ownerless, returns it with
\* created=True and leaves its id in the session under "BASKET_ID".
C1_AnonymousFirstCall ==
    [][(/\ last'.op = Goc
        /\ last'.user = Anonymous
        /\ last'.hook_id = NoHook
        /\ RequestSession[BASKET_ID_SESSION_KEY] = NoBasket)
       => \E n \in DOMAIN store' \ DOMAIN store :
            /\ DOMAIN store' = DOMAIN store \cup {n}
            /\ \A b \in DOMAIN store : store'[b] = store[b]
            /\ store'[n].user = NoUser
            /\ last'.raised = "none"
            /\ last'.basket = n
            /\ last'.created
            /\ last'.session[BASKET_ID_SESSION_KEY] = n
            /\ (has_session => session'[BASKET_ID_SESSION_KEY] = n)]_vars

C1_Witness ==
    /\ last.op = Goc
    /\ last.user = Anonymous
    /\ last.hook_id = NoHook
    /\ last.created
    /\ last.basket \in DOMAIN store
    /\ last.session[BASKET_ID_SESSION_KEY] = last.basket

\* C2: once the session holds the id of a basket that is still there and
\* ownerless, an anonymous get_or_create_from_request with that session
\* returns that basket with created=False and adds no basket.
C2_AnonymousReplay ==
    [][(/\ last'.op = Goc
        /\ last'.user = Anonymous
        /\ has_session
        /\ session[CallKey] # NoBasket
        /\ session[CallKey] \in DOMAIN store
        /\ store[session[CallKey]].user = NoUser)
       => /\ last'.raised = "none"
          /\ last'.basket = session[CallKey]
          /\ ~last'.created
          /\ store' = store
          /\ session' = session]_vars

C2_Witness ==
    /\ last.op = Goc
    /\ last.user = Anonymous
    /\ has_session
    /\ ~last.created
    /\ last.basket \in DOMAIN store
    /\ session[SessionKey(last.hook_id)] = last.basket

\* C3: a staff get_or_create_from_request with a hook_id no basket has, and a
\* session basket with items, leaves exactly one basket with that hook_id,
\* holding the session basket's items, removes the session key and returns
\* created=True.
C3_StaffHookCreate ==
    [][(/\ last'.op = Goc
        /\ StaffWithHook(last'.user, last'.hook_id)
        /\ ByHook(store, last'.hook_id) = {}
        /\ CallSessionBasket # NoBasket
        /\ store[CallSessionBasket].items # NoItems)
       => /\ last'.raised = "none"
          /\ last'.created
          /\ ByHook(store', last'.hook_id) = {last'.basket}
          /\ store'[last'.basket].items = store[CallSessionBasket].items
          /\ CallSessionBasket \notin DOMAIN store'
          /\ last'.session[CallKey] = NoBasket
          /\ session'[CallKey] = NoBasket]_vars

C3_Witness ==
    /\ last.op = Goc
    /\ StaffWithHook(last.user, last.hook_id)
    /\ last.created
    /\ last.basket \in DOMAIN store
    /\ store[last.basket].items # NoItems
    /\ session[SessionKey(last.hook_id)] = NoBasket

\* C4: a staff get_or_create_from_request with a hook_id that two or more
\* baskets share leaves exactly one basket with that hook_id, one of the
\* originals, returned with created=False, whose items are the originals'
\* items with the quantities of equal refs summed.
C4_DuplicatesMerged ==
    [][(/\ last'.op = Goc
        /\ StaffWithHook(last'.user, last'.hook_id)
        /\ Cardinality(ByHook(store, last'.hook_id)) >= 2)
       => /\ last'.raised = "none"
          /\ ~last'.created
          /\ last'.basket \in ByHook(store, last'.hook_id)
          /\ ByHook(store', last'.hook_id) = {last'.basket}
          /\ \A r \in Refs :
               store'[last'.basket].items[r]
                 = QtyOver(store, ByHook(store, last'.hook_id), r)]_vars

\* C5: a staff get_from_request_or_none with a hook_id returns the basket with
\* that hook_id whenever there is one, and None only when there is none.
C5_HookBasketReturned ==
    [][(/\ last'.op = OrNone
        /\ StaffWithHook(last'.user, last'.hook_id)
        /\ last'.raised = "none")
       => IF ByHook(store, last'.hook_id) = {}
          THEN last'.basket = NoBasket
          ELSE last'.basket \in ByHook(store, last'.hook_id)]_vars

\* C6: get_from_request_or_none never creates a basket: no basket id is in
\* the table after the call that was not there before it.
C6_OrNoneNeverCreates ==
    [][last'.op = OrNone
       => /\ DOMAIN store' \subseteq DOMAIN store
          /\ nextId' = nextId]_vars

C6_Witness ==
    /\ last.op = OrNone
    /\ StaffWithHook(last.user, last.hook_id)
    /\ ByHook(store, last.hook_id) = {}
    /\ last.basket = NoBasket
    /\ store # << >>

\* C7: from an empty table, no two baskets ever share a hook_id.
C7_HookUnique ==
    \A b1, b2 \in DOMAIN store :
        (b1 # b2 /\ store[b1].hook_id # NoHook)
            => store[b1].hook_id # store[b2].hook_id

C7_Witness ==
    /\ last.op = "create"
    /\ last.raised = "IntegrityError"
    /\ ByHook(store, last.hook_id) # {}
    /\ last.basket \notin ByHook(store, last.hook_id)

\* C8: for an authenticated caller outside the staff-with-hook_id branch,
\* get_or_create_from_request returns a basket of that user, created=True
\* exactly when the user had none; so every user owns at most one basket.
C8_UserBasket ==
    [][/\ (/\ last'.op = Goc
           /\ is_authenticated(last'.user)
           /\ ~StaffWithHook(last'.user, last'.hook_id))
          => /\ last'.raised = "none"
             /\ last'.basket \in ByUser(store', last'.user)
             /\ last'.created <=> (ByUser(store, last'.user) = {})
       /\ \A u \in UserIds : Cardinality(ByUser(store', u)) <= 1]_vars

C8_Witness ==
    /\ last.op = Goc
    /\ last.user = "customer"
    /\ ~last.created
    /\ ByUser(store, "customer") = {last.basket}
    /\ ByUser(store, "staff") # {}

\* C9: neither resolver call ever raises, whatever the table holds, baskets
\* sharing a hook_id or a user included.
C9_NothingRaised ==
    last.op \in {Goc, OrNone} => last.raised = "none"

\* C10: an order in CANCELLED or REFUNDED never changes status, those two
\* statuses have no entry to go to, and get_payable() is CREATED, HOLD, FAILED.
C10_TerminalAndPayable ==
    [][/\ \A o \in DOMAIN orders :
            orders[o] \in {"CANCELLED", "REFUNDED"} => orders'[o] = orders[o]
       /\ get_transitions["CANCELLED"] = << >>
       /\ get_transitions["REFUNDED"] = << >>
       /\ Members(get_payable) = {"CREATED", "HOLD", "FAILED"}]_vars

C10_Witness ==
    /\ \E o \in DOMAIN orders : orders[o] = "CANCELLED"
    /\ \E o \in DOMAIN orders : orders[o] = "REFUNDED"

\* the point-of-sale statuses
PosStatuses ==
    {"POS_PREPARING", "POS_READY", "POS_REMAKE", "POS_SERVED", "POS_PAID"}

\* the statuses the table lets an order go to from a status
Successors(status) ==
    IF status \in DOMAIN get_transitions
    THEN Members(get_transitions[status])
    ELSE {}

\* the statuses reached from a set of statuses in at most n further changes
RECURSIVE ReachableWithin(_, _)
ReachableWithin(from, n) ==
    IF n = 0 THEN from
    ELSE ReachableWithin(from \cup UNION {Successors(s) : s \in from}, n - 1)

\* the statuses reachable from a status in one change or more
ReachableFrom(status) ==
    ReachableWithin(Successors(status), Cardinality(OrderStatus))

\* C11, as stated: an order in CREATED can reach each of the five
\* point-of-sale statuses through the table, and none of them has an outgoing
\* transition.
C11_AllPosReachable ==
    \A o \in DOMAIN orders :
        orders[o] = "CREATED"
        => /\ PosStatuses \subseteq ReachableFrom(orders[o])
           /\ \A p \in PosStatuses : Successors(p) = {}

\* C11, amended: POS_PREPARING, POS_READY and POS_REMAKE are reachable from
\* CREATED (in one change), POS_SERVED and POS_PAID are reachable from no
\* status so no order ever has them, and an order in a point-of-sale status
\* never changes status again.
C11_PosReachability ==
    [][/\ \A o \in DOMAIN orders :
            orders[o] \in PosStatuses => orders'[o] = orders[o]
       /\ \A o \in DOMAIN orders' :
            orders'[o] \notin {"POS_SERVED", "POS_PAID"}
       /\ {"POS_PREPARING", "POS_READY", "POS_REMAKE"}
            \subseteq Successors("CREATED")
       /\ \A s \in OrderStatus :
            Successors(s) \cap {"POS_SERVED", "POS_PAID"} = {}
       /\ \A p \in PosStatuses : Successors(p) = {}]_vars

C11_Witness ==
    /\ \E o \in DOMAIN orders : orders[o] = "POS_PREPARING"
    /\ \E o \in DOMAIN orders : orders[o] = "POS_REMAKE"

\* C12: once two interleaved staff calls for a hook_id no basket had have
\* both returned and one further call for it has completed, exactly one
\* basket has that hook_id.
C12_RaceReconciled ==
    (/\ \A p \in Procs : race[p].pc = "done"
     /\ last.op = Goc)
    => Cardinality(ByHook(store, RaceHook)) = 1

C12_Witness ==
    /\ \A p \in Procs : race[p].pc = "done"
    /\ \E p \in Procs : race[p].lost
    /\ \E p \in Procs : race[p].created
    /\ last.op = Goc
    /\ Cardinality(ByHook(store, RaceHook)) = 1

\* C13: a checkout whose hook_id no basket has is answered with a validation
\* error (HTTP 400); it adds no basket and no order and leaves the table and
\* the session as they were, the caller's session or user basket included.
C13_UnknownHookRejected ==
    [][(/\ last'.op = CheckoutOp
        /\ last'.hook_id # NoHook
        /\ ByHook(store, last'.hook_id) = {})
       => /\ last'.raised = "ValidationError"
          /\ Response(last'.raised) = "HTTP_400_BAD_REQUEST"
          /\ last'.basket = NoBasket
          /\ store' = store
          /\ nextId' = nextId
          /\ orders' = orders
          /\ session' = session]_vars

C13_Witness ==
    /\ last.op = CheckoutOp
    /\ last.hook_id # NoHook
    /\ last.user = "customer"
    /\ Response(last.raised) = "HTTP_400_BAD_REQUEST"
    /\ ByHook(store, last.hook_id) = {}
    /\ ByUser(store, "customer") # {}
    /\ orders = << >>

\* C19: a checkout paid with pay-after-service adds exactly one order, with
\* status CREATED, and deletes the basket it paid and no other; CREATED ->
\* POS_PREPARING is a legal change of status.
C19_PayAfterService ==
    [][(/\ last'.op = CheckoutOp
        /\ last'.raised = "none")
       => /\ orders' = Append(orders, "CREATED")
          /\ last'.basket # NoBasket
          /\ last'.basket \notin DOMAIN store'
          /\ DOMAIN store' = DOMAIN store \ {last'.basket}
          /\ \A b \in DOMAIN store' : store'[b] = store[b]
          /\ Legal("CREATED", "POS_PREPARING")]_vars

C19_Witness ==
    /\ last.op = CheckoutOp
    /\ last.raised = "none"
    /\ last.hook_id # NoHook
    /\ orders = <<"CREATED">>
    /\ last.basket \notin DOMAIN store
    /\ store # << >>

\* C14: after a get_or_create_from_request call in the staff-with-hook_id
\* branch the session key of the hook is absent, and a further such call with
\* the same session and hook_id returns the same basket with created=False
\* and changes no basket: the session basket was folded in once.
C14_FoldedOnce ==
    [][(/\ last.op = Goc
        /\ StaffWithHook(last.user, last.hook_id)
        /\ last.raised = "none"
        /\ last'.op = Goc
        /\ StaffWithHook(last'.user, last'.hook_id)
        /\ last'.hook_id = last.hook_id)
       => /\ RequestSession[CallKey] = NoBasket
          /\ last'.raised = "none"
          /\ last'.basket = last.basket
          /\ ~last'.created
          /\ store' = store
          /\ session' = session]_vars

\* the id under the session key of the call a step makes names a basket that
\* is still there and has no owner
CallKeyUsable ==
    /\ RequestSession[CallKey] # NoBasket
    /\ RequestSession[CallKey] \in DOMAIN store
    /\ store[RequestSession[CallKey]].user = NoUser

\* C15: both resolvers use the basket under the session key only if it is
\* still there and ownerless.  Otherwise (key missing, basket deleted, basket
\* owned by a user) an anonymous get_or_create_from_request creates a fresh
\* ownerless basket and overwrites the key with its id, an or_none call
\* outside the staff branch returns None and changes nothing, and a staff
\* call merges away no basket other than those with the hook_id.
C15_SessionBasketUsable ==
    [][(last'.op \in {Goc, OrNone})
       => /\ (CallKeyUsable /\ ~StaffWithHook(last'.user, last'.hook_id)
                            /\ (last'.op = Goc => last'.user = Anonymous))
             => /\ last'.basket = RequestSession[CallKey]
                /\ ~last'.created
                /\ store' = store
          /\ (~CallKeyUsable /\ last'.op = Goc /\ last'.user = Anonymous)
             => /\ last'.created
                /\ last'.basket \notin DOMAIN store
                /\ store' = Insert(store, last'.basket,
                                   Basket(NoUser, NoHook, NoItems))
                /\ last'.session[CallKey] = last'.basket
                /\ has_session => session' = last'.session
          /\ (~CallKeyUsable /\ last'.op = OrNone
                             /\ ~StaffWithHook(last'.user, last'.hook_id))
             => /\ last'.basket = NoBasket
                /\ store' = store
                /\ session' = session
          /\ (~CallKeyUsable /\ StaffWithHook(last'.user, last'.hook_id))
             => \A b \in DOMAIN store \ ByHook(store, last'.hook_id) :
                    b \in DOMAIN store' /\ store'[b] = store[b]]_vars

\* an or_none call returned None although the session key names a basket:
\* the basket is owned by a user
C15_Witness ==
    /\ last.op = OrNone
    /\ ~StaffWithHook(last.user, last.hook_id)
    /\ last.raised = "none"
    /\ last.basket = NoBasket
    /\ session[SessionKey(last.hook_id)] \in DOMAIN store
    /\ store[session[SessionKey(last.hook_id)]].user = "customer"

\* C16: outside the staff-with-hook_id case get_from_request_or_none returns
\* the ownerless basket the session key names if there is one and None
\* otherwise, and changes neither the session nor any basket; a user who owns
\* a basket but has no session basket gets None.
C16_OrNoneSessionOnly ==
    [][(/\ last'.op = OrNone
        /\ ~StaffWithHook(last'.user, last'.hook_id))
       => /\ last'.raised = "none"
          /\ last'.basket = IF CallKeyUsable THEN RequestSession[CallKey]
                            ELSE NoBasket
          /\ last'.session = RequestSession
          /\ store' = store
          /\ session' = session
          /\ nextId' = nextId]_vars

C16_Witness ==
    /\ last.op = OrNone
    /\ last.user = "customer"
    /\ last.basket = NoBasket
    /\ ByUser(store, "customer") # {}
    /\ has_session
    /\ session[SessionKey(last.hook_id)] = NoBasket

\* C18: for an authenticated caller outside the staff-with-hook_id case
\* get_or_create_from_request only fetches or creates the user's basket: no
\* basket is deleted or changed, the session is left as it was, and an
\* ownerless session basket is still there, with its items, under its key.
C18_UserCallFrame ==
    [][(/\ last'.op = Goc
        /\ is_authenticated(last'.user)
        /\ ~StaffWithHook(last'.user, last'.hook_id))
       => /\ last'.raised = "none"
          /\ session' = session
          /\ last'.session = RequestSession
          /\ \A b \in DOMAIN store : b \in DOMAIN store' /\ store'[b] = store[b]
          /\ IF last'.created
             THEN /\ ByUser(store, last'.user) = {}
                  /\ store' = Insert(store, last'.basket,
                                     Basket(last'.user, NoHook, NoItems))
             ELSE /\ ByUser(store, last'.user) = {last'.basket}
                  /\ store' = store
          /\ CallKeyUsable
             => /\ store'[RequestSession[CallKey]] = store[RequestSession[CallKey]]
                /\ last'.session[CallKey] = RequestSession[CallKey]]_vars

C18_Witness ==
    /\ last.op = Goc
    /\ last.user = "customer"
    /\ last.created
    /\ has_session
    /\ session[SessionKey(last.hook_id)] \in DOMAIN store
    /\ store[session[SessionKey(last.hook_id)]].user = NoUser
    /\ store[session[SessionKey(last.hook_id)]].items # NoItems

\* C20: get_transitions() has an entry for every status, so the test "next
\* is in get_transitions()[current]" is defined whatever status an order is
\* in, the point-of-sale statuses included.
C20_EveryStatusHasEntry ==
    \A o \in DOMAIN orders :
        /\ orders[o] \in DOMAIN get_transitions
        /\ orders[o] \in PosStatuses => OrderStatus \subseteq DOMAIN get_transitions

\* C17: an anonymous get_or_create_from_request reads and writes only the
\* session key of its hook_id ("BASKET_ID" without one): every other key is
\* left as it was, a basket under another key is not used, and the baskets
\* resolved in one session under different hook ids, or under one and under
\* none, are distinct.
C17_KeysSeparate ==
    [][(/\ last'.op = Goc
        /\ last'.user = Anonymous)
       => /\ last'.hook_id = NoHook => CallKey = "BASKET_ID"
          /\ last'.hook_id = "h1" => CallKey = "BASKET_ID_h1"
          /\ last'.hook_id = "h2" => CallKey = "BASKET_ID_h2"
          /\ \A k \in DOMAIN session \ {CallKey} : session'[k] = session[k]
          /\ session'[CallKey] = last'.basket
          /\ session[CallKey] = NoBasket
             => last'.created /\ last'.basket \notin DOMAIN store
          /\ (/\ last.op = Goc
              /\ last.user = Anonymous
              /\ last.hook_id # last'.hook_id)
             => last'.basket # last.basket
          /\ \A k1, k2 \in DOMAIN session' :
               (k1 # k2 /\ session'[k1] # NoBasket)
               => session'[k1] # session'[k2]]_vars

C17_Witness ==
    /\ last.op = Goc
    /\ last.user = Anonymous
    /\ last.hook_id = "h2"
    /\ session[SessionKey("h1")] # NoBasket
    /\ session[SessionKey("h2")] # NoBasket
    /\ session[SessionKey("h1")] # session[SessionKey("h2")]
    /\ session[SessionKey(NoHook)] = NoBasket

\* C21: the transition graph has no cycle: no order is in a status that can
\* be reached again from itself, and every change of status strictly shrinks
\* the set of statuses still reachable, so the changes of an order come to an
\* end, in a status with nothing to go to.
C21_NoCycle ==
    [][\A o \in DOMAIN orders :
          /\ orders[o] \notin ReachableFrom(orders[o])
          /\ orders'[o] # orders[o]
             => /\ orders'[o] \in Successors(orders[o])
                /\ ReachableFrom(orders'[o]) \subseteq ReachableFrom(orders[o])
                /\ ReachableFrom(orders'[o]) # ReachableFrom(orders[o])
          /\ ReachableFrom(orders[o]) = {} <=> Successors(orders[o]) = {}]_vars

C21_Witness ==
    /\ \E o \in DOMAIN orders : orders[o] = "COMPLETED"
    /\ \E o \in DOMAIN orders :
         orders[o] \in PosStatuses /\ Successors(orders[o]) = {}

\* C22: PROCESSING is a legal next status of every payable status, and an
\* order that has left the payable statuses (it is neither NEW nor payable)
\* never has a payable status again.
C22_PayableLeftForGood ==
    [][/\ \A p \in Members(get_payable) : Legal(p, "PROCESSING")
       /\ \A o \in DOMAIN orders :
            orders[o] \notin Members(get_payable) \cup {"NEW"}
            => /\ orders'[o] \notin Members(get_payable)
               /\ ReachableFrom(orders[o]) \cap Members(get_payable) = {}]_vars

C22_Witness ==
    /\ \E o \in DOMAIN orders : orders[o] = "SHIPPED"
    /\ \E o \in DOMAIN orders : orders[o] = "FAILED"

\* C23: a get_from_request_or_none call that follows a call with the same
\* caller, session and hook_id, with nothing in between, returns what that
\* call returned, staff with a hook_id and a session basket included.
C23_OrNoneRepeatable ==
    [][(/\ last.op = OrNone
        /\ last.raised = "none"
        /\ last'.op = OrNone
        /\ last'.user = last.user
        /\ last'.hook_id = last.hook_id)
       => /\ last'.raised = "none"
          /\ last'.basket = last.basket]_vars

=============================================================================
